---- MODULE Spec2Model ----
(***************************************************************************)
(* The paced ring buffer of weresocool_ring_buffer.                        *)
(*                                                                         *)
(* Two backends are modelled side by side:                                 *)
(*   "atomic"  src/src/lib.rs         (AtomicPtr slots, atomic counters)   *)
(*   "unsafe"  src/src/lib_unsafe.rs  (UnsafeCell slots and counters)      *)
(* and two builds of each: overflow checks on (a usize subtraction below   *)
(* zero panics) and overflow checks off (it wraps modulo 2^bits).          *)
(*                                                                         *)
(* Spec is the sequential machine: every write() and read() call is one    *)
(* atomic action, the clock advances between calls.                        *)
(*                                                                         *)
(* SpecConc is lib.rs under threads: one producer thread in write() and    *)
(* one consumer thread in read(), each call split into its accesses to the *)
(* shared atomics and to the heap, interleaved in every order.             *)
(* SpecConc2 adds a second consumer thread; SpecCalls is the producer and  *)
(* one consumer with no fairness assumed of the scheduler.                 *)
(*                                                                         *)
(* SpecPair runs lib.rs and lib_unsafe.rs on the same calls; SpecLife is   *)
(* Spec with the destruction of the buffer.                                *)
(***************************************************************************)
EXTENDS Integers, Sequences, FiniteSets, TLC

\* ------------------------------------------------------------ parameters
\* Arguments of RingBuffer::new.
buffer_size == 2
ring_buffer_size == 2
sample_rate == 10

\* Resolution of the model's clock: ticks per second (the code counts
\* nanoseconds).  With buffer_size/sample_rate = 0.2 s and 7 ticks per
\* second, 1 tick (0.1428 s) lies between 0.7 x 0.2 s and 0.75 x 0.2 s.
TicksPerSec == 7

\* Bounds of the exploration.
MaxWrites == 20
MaxTime == 24
MaxElapsed == 2
MaxAccepted == 10
\* SpecConc: calls per thread and clock.
MaxConcWrites == 3
MaxConcReads == 2
MaxConcTime == 2
\* SpecConc2, SpecCalls: calls of the producer, calls of each consumer.
MaxDuoWrites == 2
MaxDuoReads == 1

\* Literals of read(): `total_reads > 10`, `total_writes - 6`.
WARMUP == 10
CATCHUP == 6

\* usize arithmetic wraps modulo 2^bits when overflow checks are off.  The
\* width is target dependent (16, 32 or 64); 16 keeps the modulus inside the
\* model checker's integers and far above every counter of the model.
UsizeModulus == 2 ^ 16

Backends == {"atomic", "unsafe"}

VARIABLES
    backend,        \* which source file is running
    checked,        \* TRUE: overflow checks on (panic), FALSE: wrapping
    buffers,        \* slot index -> pointer (heap address)
    heap,           \* heap address -> [live, frees, data]
    total_writes,
    total_reads,
    last_read,      \* ticks since start_time at the last accepted advance
    now,            \* start_time.elapsed(), in ticks
    accepted,       \* history: number of accepted advances, capped
    ret,            \* history: the last call and what it returned
    pc,             \* SpecConc: thread -> the statement it is at
    loc,            \* SpecConc: thread -> its local variables
    alive,          \* FALSE once the RingBuffer value has been dropped
    twin            \* SpecPair: the read side of a lib_unsafe.rs instance
                    \* that is given the same calls

vars == <<backend, checked, buffers, heap, total_writes, total_reads,
          last_read, now, accepted, ret, pc, loc, alive, twin>>

\* What no call on the buffer changes: the build, that the buffer exists,
\* and the other instance.
outside == <<backend, checked, alive, twin>>

\* What the sequential calls leave alone on the thread side.
threads == <<pc, loc>>

\* ---------------------------------------------------------------- frames
\* A frame whose samples all carry the value k.
Frame(k, len) == [i \in 1..len |-> k]

\* vec![0.0; buffer_size]
ZeroFrame == Frame(0, buffer_size)

Slots == 0..(ring_buffer_size - 1)

\* The frames a producer may pass to write(): the producer stamps the frame
\* of its k-th successful write with k; the length is right, one short or
\* one long.
WriteInputs ==
    {Frame(total_writes + 1, n) :
        n \in {buffer_size - 1, buffer_size, buffer_size + 1}}

\* ------------------------------------------------------- usize arithmetic
\* a - b on usize: the value the wrapping build computes.
WrapSub(a, b) == IF a >= b THEN a - b ELSE UsizeModulus - (b - a)

\* The subtraction's mathematical result is negative.
Underflows(a, b) == a < b

\* ----------------------------------------------------------------- pacing
\* The coefficient of the pacing threshold, as <<numerator, denominator>>.
PacingCoef(be) == IF be = "atomic" THEN <<3, 4>> ELSE <<7, 10>>

\* elapsed_time >= buffer_size as f32 / sample_rate * coef, with elapsed in
\* ticks: e / TicksPerSec >= buffer_size / sample_rate * num / den.
PacingOpen(be, e) ==
    e * sample_rate * PacingCoef(be)[2]
        >= PacingCoef(be)[1] * buffer_size * TicksPerSec

\* Mutant of AdvanceCond: the reader may advance onto the writer's slot.
AdvanceCondNoLag(be, tw, tr, e) == tr < tw /\ PacingOpen(be, e)

\* `total_reads < total_writes - 1 && elapsed_time >= ...` with the wrapping
\* subtraction: whether the pacing step advances the read cursor.
AdvanceCond(be, tw, tr, e) == tr < WrapSub(tw, 1) /\ PacingOpen(be, e)

\* -------------------------------------------------------- backlog governor
\* Mutant of CatchUpCond: the warm-up test is dropped.
CatchUpCondNoWarmUp(tw, tr) == tr < WrapSub(tw, CATCHUP)

\* `total_reads > 10 && total_reads < total_writes - 6` with the wrapping
\* subtraction; && does not evaluate the subtraction when the left side fails.
CatchUpCond(tw, tr) == tr > WARMUP /\ tr < WrapSub(tw, CATCHUP)

\* Mutant of CatchUpOperand: both backends test the stale local.
CatchUpOperandStale(be, tr, r1) == tr

\* The total_reads value the catch-up test reads: lib.rs reloads the counter
\* after the pacing step (r1); lib_unsafe.rs tests the local loaded at the
\* start of the call (tr).
CatchUpOperand(be, tr, r1) == IF be = "atomic" THEN r1 ELSE tr

\* Mutant of ReadIndex: the slot after the cursor's.
ReadIndexNext(be, r1, r2) == (r2 + 1) % ring_buffer_size

\* The counter the read index is taken from: lib.rs uses the local loaded
\* before the catch-up store (r1); lib_unsafe.rs reads the counter again
\* after it (r2).
ReadIndex(be, r1, r2) ==
    (IF be = "atomic" THEN r1 ELSE r2) % ring_buffer_size

\* ------------------------------------------------------------------ read()
\* What one read() call does to the read-side state, from the values it sees:
\* tw, tr the counters, lr last_read, t the clock.  chk: overflow checks on.
\* A panic leaves what was stored before it.
ReadOutcome(be, chk, tw, tr, lr, t) ==
    LET uf1 == Underflows(tw, 1)
        adv == AdvanceCond(be, tw, tr, t - lr)
        r1  == IF adv THEN tr + 1 ELSE tr
        lr1 == IF adv THEN t ELSE lr
        cu  == CatchUpOperand(be, tr, r1)
        uf2 == cu > WARMUP /\ Underflows(tw, CATCHUP)
        snp == CatchUpCond(tw, cu)
        r2  == IF snp THEN tw ELSE r1
    IN  IF chk /\ uf1
        THEN [panic |-> TRUE, reads |-> tr, last_read |-> lr, idx |-> 0,
              advanced |-> FALSE, snapped |-> FALSE, underflow |-> TRUE]
        ELSE IF chk /\ uf2
        THEN [panic |-> TRUE, reads |-> r1, last_read |-> lr1, idx |-> 0,
              advanced |-> adv, snapped |-> FALSE, underflow |-> TRUE]
        ELSE [panic |-> FALSE, reads |-> r2, last_read |-> lr1,
              idx |-> ReadIndex(be, r1, r2),
              advanced |-> adv, snapped |-> snp, underflow |-> uf1 \/ uf2]

\* ------------------------------------------------------------------- heap
\* Box::into_raw(Box::new(data)): a fresh address holding the frame.
NewAddr == Cardinality(DOMAIN heap) + 1

Alloc(h, data) == [a \in (DOMAIN h) \cup {Cardinality(DOMAIN h) + 1} |->
                      IF a \in DOMAIN h THEN h[a]
                      ELSE [live |-> TRUE, frees |-> 0, data |-> data]]

\* Mutant of Free: the displaced frame is forgotten, not dropped.
FreeForgets(h, a) == h

\* Box::from_raw(old_data), dropped.  The bytes stay where they were until
\* the allocator hands the block out again; frees counts the drops.
Free(h, a) == [h EXCEPT ![a].live = FALSE, ![a].frees = @ + 1]

\* (&*data_ptr).clone() of a live frame.
Deref(a) == heap[a].data

\* The frame each slot holds.
SlotFrame(i) == Deref(buffers[i])

NoRet == [op |-> "new", status |-> "ok", data |-> <<>>, idx |-> 0,
          advanced |-> FALSE, snapped |-> FALSE, underflow |-> FALSE,
          uaf |-> FALSE]

Writer == "w"
Readers == {"r1", "r2"}
Threads == {Writer} \cup Readers

\* The locals of a thread outside a call; calls counts the calls it made.
NoTwin == [total_reads |-> 0, last_read |-> 0, status |-> "ok",
           data |-> <<>>]

NoLoc == [tw |-> 0, tr |-> 0, t |-> 0, elapsed |-> 0, tr2 |-> 0, ptr |-> 0,
          old |-> 0, data |-> <<>>, copy |-> <<>>, adv |-> FALSE,
          snp |-> FALSE, uf |-> FALSE, uaf |-> FALSE, calls |-> 0]

\* ------------------------------------------------------------------- new()
Init ==
    /\ backend \in Backends
    /\ checked \in BOOLEAN
    /\ buffers = [i \in Slots |-> i + 1]
    /\ heap = [a \in 1..ring_buffer_size |->
                  [live |-> TRUE, frees |-> 0, data |-> ZeroFrame]]
    /\ total_writes = 0
    /\ total_reads = 0
    /\ last_read = 0
    /\ now = 0
    /\ accepted = 0
    /\ ret = NoRet
    /\ pc = [t \in Threads |-> "idle"]
    /\ loc = [t \in Threads |-> NoLoc]
    /\ alive = TRUE
    /\ twin = NoTwin

\* ------------------------------------------------------------------ write()
\* Mutant of WriteIndex: the index is taken after the increment.
WriteIndexAfterIncrement(tw) == (tw + 1) % ring_buffer_size

\* The slot a write replaces.
WriteIndex(tw) == tw % ring_buffer_size

\* Mutant of SizeMismatch: only a frame that is too short is rejected.
SizeMismatchTooShort(data) == Len(data) < buffer_size

\* data.len() != self.buffer_size
SizeMismatch(data) == Len(data) # buffer_size

Write(data) ==
    IF SizeMismatch(data)
    THEN /\ ret' = [NoRet EXCEPT !.op = "write",
                                 !.status = "DataSizeMismatch", !.data = data]
         /\ UNCHANGED <<outside, buffers, heap, total_writes,
                        total_reads, last_read, now, accepted, threads>>
    ELSE /\ total_writes < MaxWrites
         /\ LET i == WriteIndex(total_writes)
                old == buffers[i]
            IN  /\ buffers' = [buffers EXCEPT ![i] = NewAddr]
                /\ heap' = Free(Alloc(heap, data), old)
         /\ total_writes' = total_writes + 1
         /\ ret' = [NoRet EXCEPT !.op = "write", !.data = data,
                                 !.idx = WriteIndex(total_writes)]
         /\ UNCHANGED <<outside, total_reads, last_read, now,
                        accepted, threads>>

\* ------------------------------------------------------------------- read()
\* read() on this buffer.
ReadCall ==
    LET o == ReadOutcome(backend, checked, total_writes, total_reads,
                         last_read, now)
    IN  /\ total_reads' = o.reads
        /\ last_read' = o.last_read
        /\ accepted' = IF o.advanced /\ accepted < MaxAccepted
                       THEN accepted + 1 ELSE accepted
        /\ ret' = [op |-> "read",
                   status |-> IF o.panic THEN "panic" ELSE "ok",
                   data |-> IF o.panic THEN <<>> ELSE SlotFrame(o.idx),
                   idx |-> o.idx, advanced |-> o.advanced,
                   snapped |-> o.snapped, underflow |-> o.underflow,
                   uaf |-> FALSE]
        /\ UNCHANGED <<backend, checked, alive, buffers, heap, total_writes,
                       now, threads>>

Read == ReadCall /\ UNCHANGED twin

\* ------------------------------------------------------------------- clock
\* Wall-clock time passes between calls.
Tick ==
    /\ now < MaxTime
    /\ now - last_read < MaxElapsed
    /\ now' = now + 1
    /\ UNCHANGED <<outside, buffers, heap, total_writes, total_reads,
                   last_read, accepted, ret, threads>>

Next ==
    \/ \E data \in WriteInputs : Write(data)
    \/ Read
    \/ Tick

Spec == Init /\ [][Next]_vars

\* ======================================================================
\* lib.rs under threads
\* ======================================================================
\* A sample value no producer writes: what a read of freed memory may see.
Garbage == 0 - 1

Goto(t, label) == pc' = [pc EXCEPT ![t] = label]

\* The call of thread t returns: its locals are dropped.
Return(t, r) ==
    /\ ret' = r
    /\ pc' = [pc EXCEPT ![t] = "idle"]
    /\ loc' = [loc EXCEPT ![t] = [NoLoc EXCEPT !.calls = loc[t].calls + 1]]

\* -------------------------------------------------------- write(), by step
\* Lines 66-70: the length check, then total_writes.load().
W_Load(data) ==
    /\ pc[Writer] = "idle"
    /\ loc[Writer].calls < MaxConcWrites
    /\ IF SizeMismatch(data)
       THEN /\ Return(Writer, [NoRet EXCEPT !.op = "write", !.data = data,
                                            !.status = "DataSizeMismatch"])
       ELSE /\ loc' = [loc EXCEPT ![Writer].tw = total_writes,
                                  ![Writer].data = data]
            /\ Goto(Writer, "w_swap")
            /\ UNCHANGED ret
    /\ UNCHANGED <<outside, buffers, heap, total_writes, total_reads,
                   last_read, now, accepted>>

\* Lines 74-75: buffers[write_index].swap(Box::into_raw(Box::new(data))).
W_Swap ==
    /\ pc[Writer] = "w_swap"
    /\ LET i == WriteIndex(loc[Writer].tw)
       IN  /\ heap' = Alloc(heap, loc[Writer].data)
           /\ buffers' = [buffers EXCEPT ![i] = NewAddr]
           /\ loc' = [loc EXCEPT ![Writer].old = buffers[i]]
    /\ Goto(Writer, "w_free")
    /\ UNCHANGED <<outside, total_writes, total_reads, last_read,
                   now, accepted, ret>>

\* Lines 77-79: Box::from_raw(old_data) is dropped.
W_Free ==
    /\ pc[Writer] = "w_free"
    /\ heap' = Free(heap, loc[Writer].old)
    /\ Goto(Writer, "w_inc")
    /\ UNCHANGED <<outside, buffers, total_writes, total_reads,
                   last_read, now, accepted, ret, loc>>

\* Lines 81-83: total_writes.fetch_add(1), Ok(()).
W_Inc ==
    /\ pc[Writer] = "w_inc"
    /\ total_writes' = total_writes + 1
    /\ Return(Writer, [NoRet EXCEPT !.op = "write", !.data = loc[Writer].data,
                                    !.idx = WriteIndex(loc[Writer].tw)])
    /\ UNCHANGED <<outside, buffers, heap, total_reads, last_read,
                   now, accepted>>

\* --------------------------------------------------------- read(), by step
\* What a read() of thread t returns with.
ReadRet(t, status, data) ==
    [op |-> "read", status |-> status, data |-> data, idx |-> loc[t].tr2,
     advanced |-> loc[t].adv, snapped |-> loc[t].snp,
     underflow |-> loc[t].uf, uaf |-> loc[t].uaf]

\* Line 87: total_writes.load().
R_LoadWrites(t) ==
    /\ pc[t] = "idle"
    /\ loc[t].calls < MaxConcReads
    /\ loc' = [loc EXCEPT ![t].tw = total_writes]
    /\ Goto(t, "r_loadreads")
    /\ UNCHANGED <<outside, buffers, heap, total_writes, total_reads,
                   last_read, now, accepted, ret>>

\* Line 88: total_reads.load().
R_LoadReads(t) ==
    /\ pc[t] = "r_loadreads"
    /\ loc' = [loc EXCEPT ![t].tr = total_reads]
    /\ Goto(t, "r_now")
    /\ UNCHANGED <<outside, buffers, heap, total_writes, total_reads,
                   last_read, now, accepted, ret>>

\* Line 93, left operand: start_time.elapsed().
R_Now(t) ==
    /\ pc[t] = "r_now"
    /\ loc' = [loc EXCEPT ![t].t = now]
    /\ Goto(t, "r_elapsed")
    /\ UNCHANGED <<outside, buffers, heap, total_writes, total_reads,
                   last_read, now, accepted, ret>>

\* Lines 93-95: last_read.load() and the subtraction.
R_Elapsed(t) ==
    /\ pc[t] = "r_elapsed"
    /\ IF checked /\ Underflows(loc[t].t, last_read)
       THEN Return(t, ReadRet(t, "panic", <<>>))
       ELSE /\ loc' = [loc EXCEPT ![t].elapsed = WrapSub(loc[t].t, last_read)]
            /\ Goto(t, "r_pace")
            /\ UNCHANGED ret
    /\ UNCHANGED <<outside, buffers, heap, total_writes, total_reads,
                   last_read, now, accepted>>

\* Lines 97-100: the pacing test and total_reads.fetch_add(1).
R_Pace(t) ==
    /\ pc[t] = "r_pace"
    /\ IF checked /\ Underflows(loc[t].tw, 1)
       THEN /\ Return(t, [ReadRet(t, "panic", <<>>) EXCEPT !.underflow = TRUE])
            /\ UNCHANGED <<total_reads, accepted>>
       ELSE /\ UNCHANGED ret
            /\ IF AdvanceCond("atomic", loc[t].tw, loc[t].tr, loc[t].elapsed)
               THEN /\ total_reads' = total_reads + 1
                    /\ accepted' = IF accepted < MaxAccepted
                                   THEN accepted + 1 ELSE accepted
                    /\ loc' = [loc EXCEPT ![t].adv = TRUE,
                                 ![t].uf = Underflows(loc[t].tw, 1)]
                    /\ Goto(t, "r_stamp")
               ELSE /\ loc' = [loc EXCEPT ![t].uf = Underflows(loc[t].tw, 1)]
                    /\ Goto(t, "r_reload")
                    /\ UNCHANGED <<total_reads, accepted>>
    /\ UNCHANGED <<outside, buffers, heap, total_writes, last_read,
                   now>>

\* Lines 101-102: last_read.store(to_nanos(&start_time.elapsed())).
R_Stamp(t) ==
    /\ pc[t] = "r_stamp"
    /\ last_read' = now
    /\ Goto(t, "r_reload")
    /\ UNCHANGED <<outside, buffers, heap, total_writes, total_reads,
                   now, accepted, ret, loc>>

\* Line 105: total_reads.load().
R_Reload(t) ==
    /\ pc[t] = "r_reload"
    /\ loc' = [loc EXCEPT ![t].tr2 = total_reads]
    /\ Goto(t, "r_catchup")
    /\ UNCHANGED <<outside, buffers, heap, total_writes, total_reads,
                   last_read, now, accepted, ret>>

\* Lines 106-109: the catch-up test and total_reads.store(total_writes).
R_CatchUp(t) ==
    /\ pc[t] = "r_catchup"
    /\ LET uf == loc[t].tr2 > WARMUP /\ Underflows(loc[t].tw, CATCHUP)
       IN  IF checked /\ uf
           THEN /\ Return(t, [ReadRet(t, "panic", <<>>)
                                 EXCEPT !.underflow = TRUE])
                /\ UNCHANGED total_reads
           ELSE /\ UNCHANGED ret
                /\ Goto(t, "r_loadptr")
                /\ IF CatchUpCond(loc[t].tw, loc[t].tr2)
                   THEN /\ total_reads' = loc[t].tw
                        /\ loc' = [loc EXCEPT ![t].snp = TRUE,
                                              ![t].uf = loc[t].uf \/ uf]
                   ELSE /\ UNCHANGED total_reads
                        /\ loc' = [loc EXCEPT ![t].uf = loc[t].uf \/ uf]
    /\ UNCHANGED <<outside, buffers, heap, total_writes, last_read,
                   now, accepted>>

\* Mutant of R_LoadPtr: the slots are behind a lock the producer holds for
\* the length of a write().
R_LoadPtrLocked(t) ==
    /\ pc[t] = "r_loadptr"
    /\ pc[Writer] = "idle"
    /\ loc' = [loc EXCEPT ![t].ptr = buffers[loc[t].tr2 % ring_buffer_size]]
    /\ Goto(t, "r_copy")
    /\ UNCHANGED <<outside, buffers, heap, total_writes, total_reads,
                   last_read, now, accepted, ret>>

\* Lines 111-112: buffers[read_index].load().
R_LoadPtr(t) ==
    /\ pc[t] = "r_loadptr"
    /\ loc' = [loc EXCEPT ![t].ptr = buffers[loc[t].tr2 % ring_buffer_size]]
    /\ Goto(t, "r_copy")
    /\ UNCHANGED <<outside, buffers, heap, total_writes, total_reads,
                   last_read, now, accepted, ret>>

\* The values a read of sample i of the frame at address a may produce: the
\* sample, while the frame is allocated; once it is freed the read is
\* undefined: the stale bytes, or whatever the allocator put there.
SampleRead(a, i) ==
    IF heap[a].live THEN {heap[a].data[i]} ELSE {heap[a].data[i], Garbage}

\* Line 113: (&*data_ptr).clone(), one sample per step; the call returns
\* with the copy when the last sample is in.
R_Copy(t) ==
    /\ pc[t] = "r_copy"
    /\ \E v \in SampleRead(loc[t].ptr, Len(loc[t].copy) + 1) :
          LET copy == Append(loc[t].copy, v)
              bad  == loc[t].uaf \/ ~heap[loc[t].ptr].live
          IN  IF Len(copy) < buffer_size
              THEN /\ loc' = [loc EXCEPT ![t].copy = copy, ![t].uaf = bad]
                   /\ UNCHANGED <<pc, ret>>
              ELSE Return(t, [ReadRet(t, "ok", copy) EXCEPT !.uaf = bad])
    /\ UNCHANGED <<outside, buffers, heap, total_writes, total_reads,
                   last_read, now, accepted>>

\* Wall-clock time passes at any point of the calls.
TickConc ==
    /\ now < MaxConcTime
    /\ now' = now + 1
    /\ UNCHANGED <<outside, buffers, heap, total_writes, total_reads,
                   last_read, accepted, ret, threads>>

\* The frames the producer passes: its k-th call carries the stamp k.
ConcWriteInputs ==
    {Frame(loc[Writer].calls + 1, n) :
        n \in {buffer_size - 1, buffer_size, buffer_size + 1}}

WriterStep ==
    \/ \E data \in ConcWriteInputs : W_Load(data)
    \/ W_Swap
    \/ W_Free
    \/ W_Inc

ReaderStep(t) ==
    \/ R_LoadWrites(t)
    \/ R_LoadReads(t)
    \/ R_Now(t)
    \/ R_Elapsed(t)
    \/ R_Pace(t)
    \/ R_Stamp(t)
    \/ R_Reload(t)
    \/ R_CatchUp(t)
    \/ R_LoadPtr(t)
    \/ R_Copy(t)

InitConc == Init /\ backend = "atomic"

\* One producer thread, one consumer thread.
NextConc ==
    \/ WriterStep
    \/ ReaderStep("r1")
    \/ TickConc

SpecConc == InitConc /\ [][NextConc]_vars

\* ======================================================================
\* Claims
\* ======================================================================
\* elapsed >= (num/den) x frame_length / nominal_rate, e in ticks.
ThresholdMet(num, den, e) ==
    e * sample_rate * den >= num * buffer_size * TicksPerSec

Elapsed == now - last_read
Backlog == total_writes - total_reads
Cursor == total_reads % ring_buffer_size
BadLength(data) == Len(data) # buffer_size

\* ---------------------------------------------------------------- C1
\* C1: a write of a frame whose length differs from frame_length returns
\* DataSizeMismatch and changes neither counter, nor last_read, nor any
\* slot (pointer or content).
C1_WrongLengthRejected ==
    [][\A data \in WriteInputs :
          (BadLength(data) /\ Write(data)) =>
              /\ ret'.status = "DataSizeMismatch"
              /\ UNCHANGED <<total_writes, total_reads, last_read,
                             buffers, heap>>]_vars

\* A wrong-length write was rejected on a buffer that already wrapped.
C1_Witness ==
    /\ ret.op = "write"
    /\ ret.status = "DataSizeMismatch"
    /\ BadLength(ret.data)
    /\ total_writes > ring_buffer_size

\* ---------------------------------------------------------------- C2
\* C2: a successful write replaces exactly the slot at (write_counter mod
\* capacity), write_counter taken before the call, increments write_counter
\* by 1 and leaves every other slot, read_counter and last_read unchanged.
C2_WriteReplacesOneSlot ==
    [][\A data \in WriteInputs :
          (~BadLength(data) /\ Write(data)) =>
              LET i == total_writes % ring_buffer_size
              IN  /\ ret'.status = "ok"
                  /\ heap'[buffers'[i]].live
                  /\ heap'[buffers'[i]].data = data
                  /\ buffers'[i] # buffers[i]
                  /\ \A j \in Slots \ {i} :
                        /\ buffers'[j] = buffers[j]
                        /\ heap'[buffers[j]] = heap[buffers[j]]
                  /\ total_writes' = total_writes + 1
                  /\ UNCHANGED <<total_reads, last_read>>]_vars

\* A successful write landed after the ring wrapped, with the reader behind.
C2_Witness ==
    /\ ret.op = "write"
    /\ ret.status = "ok"
    /\ total_writes > ring_buffer_size
    /\ SlotFrame(ret.idx) = ret.data
    /\ total_reads > 0

\* ---------------------------------------------------------------- C3
\* C3: read() on a freshly constructed buffer (no call made yet, both
\* counters 0), at any elapsed time, returns normally the zero frame and
\* leaves read_counter at 0.
C3_FreshReadReturnsZeroFrame ==
    [][(ret.op = "new" /\ total_writes = 0 /\ total_reads = 0 /\ Read) =>
          /\ ret'.status = "ok"
          /\ ret'.data = ZeroFrame
          /\ total_reads' = 0]_vars

\* ---------------------------------------------------------------- C4
\* C4 as claimed, on states with write_counter >= 1 (where write_counter - 1
\* does not underflow): a read() advances read_counter by 1 and resets
\* last_read to the current time iff elapsed >= 0.75 x frame_duration and
\* read_counter < write_counter.
C4_PacingRuleAsClaimed ==
    [][(Read /\ total_writes >= 1) =>
          ((total_reads' = total_reads + 1 /\ last_read' = now)
              <=> (ThresholdMet(3, 4, Elapsed) /\ total_reads < total_writes))
      ]_vars

\* The pacing rule of the code: the coefficient is 0.75 in lib.rs and 0.7 in
\* lib_unsafe.rs, and the reader stays one frame behind the writer.
C4_Rule ==
    /\ ThresholdMet(IF backend = "atomic" THEN 3 ELSE 7,
                    IF backend = "atomic" THEN 4 ELSE 10, Elapsed)
    /\ total_reads + 1 < total_writes

\* C4 amended: with write_counter >= 1, the pacing step of read() advances
\* read_counter by 1 and resets last_read to the current time iff elapsed >=
\* c x frame_duration (c = 0.75 lock-free, 0.7 unsynchronized) and
\* read_counter + 1 < write_counter; otherwise it leaves both alone.  Only a
\* catch-up snap of the same call may move read_counter further.
C4_PacingRule ==
    [][(Read /\ total_writes >= 1) =>
          /\ ret'.status = "ok"
          /\ C4_Rule =>
                /\ last_read' = now
                /\ total_reads' = total_reads + 1
                     \/ (ret'.snapped /\ total_reads' = total_writes)
          /\ ~C4_Rule =>
                /\ last_read' = last_read
                /\ total_reads' = total_reads
                     \/ (ret'.snapped /\ total_reads' = total_writes)]_vars

\* A read advanced the cursor by exactly one, to one frame behind the writer.
C4_Witness ==
    /\ ret.op = "read"
    /\ ret.advanced
    /\ ~ret.snapped
    /\ last_read = now
    /\ total_reads + 1 = total_writes
    /\ total_reads >= 2
\* ---------------------------------------------------------------- C5
\* Elapsed time is below the threshold of either backend (0.7 and 0.75).
WindowClosed == ~ThresholdMet(7, 10, Elapsed)

\* C5 as claimed, on the build with overflow checks and states with
\* write_counter >= 1 (no subtraction underflows): a read() made while the
\* pacing window is closed returns the frame at the current, unadvanced read
\* cursor, and so does every further read() of the window when no write
\* comes in between (the same frame), also with read_counter > 10 and
\* backlog > 6.
C5_ClosedWindowAsClaimed ==
    [][(Read /\ checked /\ total_writes >= 1 /\ WindowClosed) =>
          /\ ret'.status = "ok"
          /\ ret'.data = SlotFrame(Cursor)
          /\ (ret.op = "read" /\ ret.status = "ok" /\ ~ret.advanced)
                => ret'.data = ret.data]_vars

\* The catch-up test of the call is false and evaluates no subtraction that
\* underflows: read_counter <= 10, or write_counter >= 6 and backlog <= 6.
C5_NoCatchUp ==
    \/ total_reads <= WARMUP
    \/ total_writes >= CATCHUP /\ Backlog <= CATCHUP

\* C5 amended: with write_counter >= 1, a read() whose pacing rule is not
\* satisfied and whose catch-up test is false (read_counter <= 10, or
\* write_counter >= 6 and backlog <= 6) returns the frame at the current,
\* unadvanced read cursor and leaves read_counter unchanged; a run of reads
\* with no write and no catch-up snap in between returns the same frame.
C5_ClosedWindow ==
    [][(Read /\ total_writes >= 1 /\ ~C4_Rule /\ C5_NoCatchUp) =>
          /\ ret'.status = "ok"
          /\ ret'.data = SlotFrame(Cursor)
          /\ total_reads' = total_reads
          /\ (ret.op = "read" /\ ret.status = "ok" /\ ~ret.snapped)
                => ret'.data = ret.data]_vars

\* Two reads in a row, the second in a closed window after warm-up, returned
\* the same written frame.
C5_Witness ==
    /\ ret.op = "read"
    /\ ret.status = "ok"
    /\ ~ret.advanced
    /\ ~ret.snapped
    /\ total_reads > WARMUP
    /\ Backlog \in 1..CATCHUP
    /\ ret.data = SlotFrame(Cursor)
    /\ ret.data # ZeroFrame
    /\ now = last_read

\* ---------------------------------------------------------------- C6
\* C6 as claimed, on the build with overflow checks (no counter ever wraps):
\* after at least 10 accepted advances, with backlog > 6, the next read()
\* sets read_counter to write_counter.
C6_CatchUpAsClaimed ==
    [][(Read /\ checked /\ accepted >= 10 /\ Backlog > 6) =>
          total_reads' = total_writes']_vars

\* C6 amended: in any state with read_counter > 10 the next read() sets
\* read_counter to write_counter when the backlog exceeds 7, pacing window
\* open or not; with a backlog of exactly 7 it does so unless the lock-free
\* backend's pacing step advances in that call (then the backlog is 6 at
\* the test and stays 6); a read() that starts with read_counter < 10 never
\* snaps.
C6_CatchUp ==
    [][Read =>
          /\ (total_reads > 10 /\ Backlog > 7) =>
                /\ ret'.status = "ok"
                /\ total_reads' = total_writes'
                /\ total_writes' = total_writes
          /\ (total_reads > 10 /\ Backlog = 7) =>
                IF backend = "atomic" /\ C4_Rule
                THEN total_reads' = total_reads + 1
                ELSE total_reads' = total_writes'
          /\ (total_reads < 10 /\ total_writes >= 1) =>
                total_reads' \in {total_reads, total_reads + 1}]_vars

\* A read snapped the cursor to the write counter after warm-up.
C6_Witness ==
    /\ ret.op = "read"
    /\ ret.snapped
    /\ accepted >= 10
    /\ total_reads = total_writes
    /\ total_writes > WARMUP + CATCHUP

\* ---------------------------------------------------------------- C7
\* C7, on the build with overflow checks: the frame read() returns is the
\* content of the slot at (read_counter mod capacity), read_counter taken
\* after the pacing and catch-up steps of the call.
C7_ReturnsSlotOfFinalCursor ==
    [][(Read /\ checked /\ ret'.status = "ok") =>
          ret'.data = SlotFrame(total_reads' % ring_buffer_size)]_vars

\* ---------------------------------------------------------------- C9
\* C9: read_counter <= write_counter in every reachable state.
C9_ReadsNeverPassWrites == total_reads <= total_writes

\* ---------------------------------------------------------------- C10
\* C10: no read() call evaluates `total_writes - 1` with total_writes = 0 or
\* `total_writes - 6` with total_writes < 6.
C10_NoNegativeSubtraction == ret.op = "read" => ~ret.underflow
\* ---------------------------------------------------------------- C8
\* The frames a read may legitimately return: the zero frame and the frame
\* of each write the producer has begun.
WrittenFrames ==
    {ZeroFrame} \cup {Frame(k, buffer_size) : k \in 1..MaxConcWrites}

\* C8: with one producer and one consumer on the lock-free backend, the
\* frame a read() copies is allocated for the whole copy (no sample is read
\* from a frame a concurrent write already freed), and the copy is in full
\* the zero frame or one written frame.  Stated for the calls in which no
\* counter subtraction underflowed.
C8_CopyNeverReadsFreedFrame ==
    (ret.op = "read" /\ ret.status = "ok" /\ ~ret.underflow) =>
        (~ret.uaf /\ ret.data \in WrittenFrames)
\* ---------------------------------------------------------------- C11
\* C11: read_counter never decreases: in every step, its value after the
\* step is >= its value before.
C11_ReadCounterNeverDecreases == [][total_reads' >= total_reads]_vars
\* ---------------------------------------------------------------- C12
\* lib.rs with two consumer threads and the producer.
\* The producer makes at most MaxDuoWrites calls and each consumer at most
\* MaxDuoReads.
NextConc2 ==
    \/ loc[Writer].calls < MaxDuoWrites /\ WriterStep
    \/ loc["r1"].calls < MaxDuoReads /\ ReaderStep("r1")
    \/ loc["r2"].calls < MaxDuoReads /\ ReaderStep("r2")
    \/ TickConc

SpecConc2 == InitConc /\ [][NextConc2]_vars

\* Thread t is inside read(), past the pacing step, and its pacing step
\* advanced the cursor from the total_reads value it had loaded.
Advanced(t) == pc[t] \in {"r_stamp", "r_reload", "r_catchup", "r_loadptr",
                         "r_copy"} /\ loc[t].adv

\* C12: two concurrent reads never both advance the cursor from the same
\* observed read_counter (no double advancement), and the pacing step never
\* leaves read_counter above write_counter - 1.
C12_PacingSerialized ==
    /\ \A a, b \in Readers :
           (a # b /\ Advanced(a) /\ Advanced(b) /\ loc[a].tw >= 1
                 /\ loc[b].tw >= 1)
               => loc[a].tr # loc[b].tr
    /\ \A a \in Readers :
           (Advanced(a) /\ loc[a].tw >= 1 /\ total_writes >= 1)
               => total_reads <= total_writes - 1
\* ---------------------------------------------------------------- C13
\* The 0-based numbers of the successful writes so far that went to slot i.
WritesTo(i) == {j \in 0..(total_writes - 1) : j % ring_buffer_size = i}

Latest(S) == CHOOSE j \in S : \A k \in S : k <= j

\* C13: after k successful writes every slot i holds the frame of the latest
\* write j < k with j mod N = i, or the zero frame when there is none.
C13_SlotsHoldLatestWrite ==
    \A i \in Slots :
        SlotFrame(i) = IF WritesTo(i) = {} THEN ZeroFrame
                       ELSE Frame(Latest(WritesTo(i)) + 1, buffer_size)

\* Write number N + 1 has just returned and slot 0 holds its frame.
C13_Witness ==
    /\ ret.op = "write" /\ ret.status = "ok"
    /\ total_writes = ring_buffer_size + 1
    /\ SlotFrame(0) = Frame(ring_buffer_size + 1, buffer_size)
\* ---------------------------------------------------------------- C14
\* lib.rs and lib_unsafe.rs side by side: the variables of the model are the
\* lib.rs instance, twin is the read side of the lib_unsafe.rs instance.
\* write() is the same code in both files, so the two instances have the
\* same slots and the same total_writes.
\* read() on both instances at the same instant, when the pacing window of
\* the one is open exactly if the window of the other is.
PairRead ==
    /\ PacingOpen("atomic", now - last_read)
           = PacingOpen("unsafe", now - twin.last_read)
    /\ ReadCall
    /\ LET o == ReadOutcome("unsafe", checked, total_writes,
                            twin.total_reads, twin.last_read, now)
       IN  twin' = [total_reads |-> o.reads, last_read |-> o.last_read,
                    status |-> IF o.panic THEN "panic" ELSE "ok",
                    data |-> IF o.panic THEN <<>> ELSE SlotFrame(o.idx)]

InitPair == Init /\ backend = "atomic"

NextPair ==
    \/ \E data \in WriteInputs : Write(data)
    \/ PairRead
    \/ Tick

SpecPair == InitPair /\ [][NextPair]_vars

\* C14: given the same calls with the same pacing-window outcomes, the two
\* backends return the same result from every read() and have the same
\* read_counter after every call.  Stated for the build with overflow checks,
\* where no subtraction wraps.
C14_BackendsAgree ==
    checked =>
        /\ twin.total_reads = total_reads
        /\ ret.op = "read" =>
               (twin.status = ret.status /\ twin.data = ret.data)
\* ---------------------------------------------------------------- C15
\* The slots whose pointer is the address a.
Holders(a) == {i \in Slots : buffers[i] = a}

\* C15: the frames allocated are the N of new() and one per successful
\* write; each of them is either the content of exactly one slot and never
\* freed, or in no slot and freed exactly once; no slot points to a freed
\* frame.
C15_FramesHeldOrFreedOnce ==
    /\ Cardinality(DOMAIN heap) = ring_buffer_size + total_writes
    /\ \A a \in DOMAIN heap :
           IF heap[a].live
           THEN Cardinality(Holders(a)) = 1 /\ heap[a].frees = 0
           ELSE Holders(a) = {} /\ heap[a].frees = 1
    /\ \A i \in Slots : heap[buffers[i]].live

\* The ring has wrapped: a frame passed to write() has been displaced and
\* freed, and every initial frame is gone.
C15_Witness ==
    /\ ret.op = "write" /\ ret.status = "ok"
    /\ total_writes > ring_buffer_size
    /\ \E a \in DOMAIN heap : ~heap[a].live /\ heap[a].data # ZeroFrame
    /\ \A a \in 1..ring_buffer_size : ~heap[a].live
\* ---------------------------------------------------------------- C16
\* The RingBuffer value goes out of scope.  Neither file implements Drop:
\* the fields are dropped in turn, and dropping a Vec of AtomicPtr (lib.rs)
\* or of *mut Vec<f32> (lib_unsafe.rs) frees the vector of pointers but
\* nothing a pointer refers to.  No call can follow.
DropBuffer ==
    /\ alive
    /\ alive' = FALSE
    /\ ret' = [NoRet EXCEPT !.op = "drop"]
    /\ UNCHANGED <<backend, checked, twin, buffers, heap, total_writes,
                   total_reads, last_read, now, accepted, threads>>

NextLife ==
    \/ alive /\ \E data \in WriteInputs : Write(data)
    \/ alive /\ Read
    \/ alive /\ Tick
    \/ DropBuffer

SpecLife == Init /\ [][NextLife]_vars

\* C16: once the RingBuffer has been destroyed, no frame allocated by new()
\* or write() is still allocated.
C16_DropReleasesFrames ==
    ~alive => \A a \in DOMAIN heap : ~heap[a].live
\* ---------------------------------------------------------------- C17
\* lib.rs with the producer (at most MaxDuoWrites calls) and one consumer
\* (at most MaxConcReads calls).  No fairness
\* is assumed of the scheduler: a thread may stop for ever at any statement.
Producer == loc[Writer].calls < MaxDuoWrites /\ WriterStep

Consumer == ReaderStep("r1")

NextCalls ==
    \/ Producer
    \/ Consumer
    \/ TickConc

SpecCalls == InitConc /\ [][NextCalls]_vars

C18_BacklogBounded ==
    (ret.op = "read" /\ ret.status = "ok" /\ total_reads > WARMUP)
        => total_writes - total_reads <= CATCHUP
\* ---------------------------------------------------------------- C19
\* The write number a returned frame carries (0: the zero frame).
Stamp(frame) == frame[1]

\* The buffer is between calls with the consumer behind the producer by at
\* least one frame and at most one lap.
InLap == 1 <= Backlog /\ Backlog <= ring_buffer_size

\* C19 as claimed: a read() never returns an older frame than the read()
\* before it.  Stated for two successive reads with no write between them.
C19_ReadsNeverGoBackAsClaimed ==
    [][(Read /\ ret.op = "read" /\ ret.status = "ok" /\ ret'.status = "ok")
          => Stamp(ret'.data) >= Stamp(ret.data)]_vars

\* C19: while the consumer stays within one lap behind the producer, reads
\* do not go backwards: a read() that returns with 1 <= write_counter -
\* read_counter <= capacity returns the frame of write number
\* read_counter + 1, and read_counter does not decrease in any call made
\* while read_counter <= write_counter.
C19_ReadsInLapInOrder ==
    [][/\ total_reads <= total_writes => total_reads' >= total_reads
       /\ (Read /\ ret'.status = "ok" /\ InLap')
              => ret'.data = Frame(total_reads' + 1, buffer_size)]_vars

\* A read() has advanced the cursor and returned within the lap a frame
\* that is neither the first nor the newest.
C19_Witness ==
    /\ ret.op = "read" /\ ret.status = "ok" /\ ret.advanced
    /\ InLap
    /\ total_reads >= 2
    /\ Backlog = ring_buffer_size
    /\ ret.data = Frame(total_reads + 1, buffer_size)
\* ---------------------------------------------------------------- C20
\* C20: in every interleaving of two concurrent read() calls, the clock
\* value a read has sampled is at least the last_read value it is about to
\* load, so `now - last_read` (line 92-93) does not underflow.  Stated for
\* the build with overflow checks, where no counter subtraction wraps.
C20_ElapsedNeverNegative ==
    checked =>
        \A t \in Readers : pc[t] = "r_elapsed" => loc[t].t >= last_read
====
